---- MODULE Spec2Model ----
(***************************************************************************)
(* A model of bootstrap-react-vite.mjs: the scaffolding run (main), the    *)
(* overlay engine it is built from (writeFile, upsertJSON, the mutate      *)
(* closures, enableTailwind) and the template registry (getFileRegistry).  *)
(*                                                                         *)
(* Files are modelled by their content.  A JSON file is a raw document     *)
(* (key order, duplicate keys and number spelling as written) together     *)
(* with its layout; a text file is a sequence of lexical fragments.        *)
(***************************************************************************)
EXTENDS Integers, Sequences, FiniteSets, TLC

VARIABLES
    fs,        \* path -> content of the file at that path (NoFile when absent)
    dirs,      \* the directories that exist below the project root
    err,       \* the error thrown by the last operation ("" when it returned)
    cmds,      \* the external commands issued so far, in order
    last,      \* overlay engine: the last operation applied ("" at the start)
    streak,    \* overlay engine: how many times in a row `last` has been applied
    prev,      \* overlay engine: the world before the last operation
    nops,      \* overlay engine: the number of operations applied so far
    start,     \* the world the operations (in main: the overlay) started from
    pc,        \* main: the step the run is at
    opts,      \* main: the command line, as parseArgs sees it
    chosenPM,  \* main: the package manager chosen after the generator ran
    exitCode,  \* main: the exit status of the process (-1 while it runs)
    trace,     \* main: the steps taken so far, in order
    printed,   \* main: what the run has printed: usage, the error, next steps
    runs       \* main: the runs completed before this one in this directory

overlayVars == <<last, streak, prev, nops, start>>
mainVars == <<pc, opts, chosenPM, exitCode, trace, printed, runs>>
vars == <<fs, dirs, err, cmds, last, streak, prev, nops, start,
          pc, opts, chosenPM, exitCode, trace, printed, runs>>

(***************************************************************************)
(* Bounds of the model.                                                    *)
(***************************************************************************)
MaxOps == 2
MaxPlugins == 3
MaxConfigLen == 2
MaxReadmeLen == 2
MaxRuns == 2

(***************************************************************************)
(* JSON values as JavaScript holds them.  Every value has the same shape:  *)
(* t is the type, s the spelling of a scalar, items the members of an      *)
(* object or array.  An array element has key ""; a named property set on  *)
(* an array (which JSON.stringify does not emit) has its name as key.      *)
(***************************************************************************)
JUndef == [t |-> "undef", s |-> "", items |-> <<>>]
JNull == [t |-> "null", s |-> "", items |-> <<>>]
JBool(b) == [t |-> "bool", s |-> IF b THEN "true" ELSE "false", items |-> <<>>]
JNum(s) == [t |-> "num", s |-> s, items |-> <<>>]
JStr(s) == [t |-> "str", s |-> s, items |-> <<>>]
Entry(k, v) == [key |-> k, val |-> v]
JObj(entries) == [t |-> "obj", s |-> "", items |-> entries]
JArr(vals) ==
    [t |-> "arr", s |-> "", items |-> [i \in 1..Len(vals) |-> Entry("", vals[i])]]

SeqToSet(q) == {q[i] : i \in 1..Len(q)}

RECURSIVE SelectKeys(_, _)
\* The entries of `items` whose key is in `keys`, in their order.
SelectKeys(items, keys) ==
    IF items = <<>> THEN <<>>
    ELSE IF Head(items).key \in keys
         THEN <<Head(items)>> \o SelectKeys(Tail(items), keys)
         ELSE SelectKeys(Tail(items), keys)

\* JavaScript truthiness: undefined, null, false, 0 and "" are falsy.
Truthy(v) ==
    /\ v.t \notin {"undef", "null"}
    /\ ~(v.t = "bool" /\ v.s = "false")
    /\ ~(v.t = "num" /\ v.s = "0")
    /\ ~(v.t = "str" /\ v.s = "")

\* Values that hold properties (a property write on a primitive throws in
\* the strict mode every ES module runs in).
IsObject(v) == v.t \in {"obj", "arr"}

HasProp(o, k) == IsObject(o) /\ \E i \in 1..Len(o.items) : o.items[i].key = k

\* o[k]: the own property named k, or undefined.  (None of the names the
\* program reads is a member of a built-in prototype.)
GetProp(o, k) ==
    IF HasProp(o, k)
    THEN o.items[CHOOSE i \in 1..Len(o.items) : o.items[i].key = k].val
    ELSE JUndef

\* o[k] = v on an object or array: an existing property keeps its place, a
\* new one is added last.
SetProp(o, k, v) ==
    IF HasProp(o, k)
    THEN [o EXCEPT !.items =
            [i \in 1..Len(o.items) |->
                IF o.items[i].key = k THEN Entry(k, v) ELSE o.items[i]]]
    ELSE [o EXCEPT !.items = Append(o.items, Entry(k, v))]

(***************************************************************************)
(* File contents.  k is "none" (no such file), "json" (a parsable JSON     *)
(* text: doc as written, fmt its layout) or "text" (any other text, as a   *)
(* sequence of fragments).                                                 *)
(***************************************************************************)
NoFile == [k |-> "none", fmt |-> "", doc |-> JUndef, text |-> <<>>]
JsonFile(fmt, doc) == [k |-> "json", fmt |-> fmt, doc |-> doc, text |-> <<>>]
TextFile(text) == [k |-> "text", fmt |-> "", doc |-> JUndef, text |-> text]

\* The canonical spelling JSON.parse/JSON.stringify give a number.
NumCanon(s) ==
    CASE s = "1.0" -> "1"
      [] s = "0.0" -> "0"
      [] OTHER -> s

\* Integer-like property names, which an object enumerates first, ascending.
IndexKeys == <<"0", "1", "2", "3">>

RECURSIVE FirstKeys(_, _)
\* The distinct keys of `items` in order of first occurrence.
FirstKeys(items, seen) ==
    IF items = <<>> THEN <<>>
    ELSE IF Head(items).key \in seen
         THEN FirstKeys(Tail(items), seen)
         ELSE <<Head(items).key>> \o FirstKeys(Tail(items), seen \cup {Head(items).key})

\* The value a duplicated key ends with: that of its last occurrence.
LastVal(items, k) ==
    items[CHOOSE i \in 1..Len(items) :
            /\ items[i].key = k
            /\ \A j \in (i+1)..Len(items) : items[j].key # k].val

RECURSIVE JSONparseValue(_)
\* JSON.parse on the value level: numbers take their canonical spelling, a
\* duplicated key keeps its first place and its last value, and integer-like
\* keys come first.
JSONparseValue(v) ==
    CASE v.t = "num" -> JNum(NumCanon(v.s))
      [] v.t = "arr" ->
           [v EXCEPT !.items =
               [i \in 1..Len(v.items) |-> Entry("", JSONparseValue(v.items[i].val))]]
      [] v.t = "obj" ->
           LET ks == FirstKeys(v.items, {})
               merged == [i \in 1..Len(ks) |->
                            Entry(ks[i], JSONparseValue(LastVal(v.items, ks[i])))]
               idx == SeqToSet(IndexKeys)
               front == SelectSeq(IndexKeys, LAMBDA k : k \in SeqToSet(ks))
           IN [v EXCEPT !.items =
                  [i \in 1..Len(front) |->
                      Entry(front[i], JSONparseValue(LastVal(v.items, front[i])))]
                  \o SelectKeys(merged, SeqToSet(ks) \ idx)]
      [] OTHER -> v

RECURSIVE JSONstringifyValue(_)
\* JSON.stringify on the value level: an array emits its elements only, an
\* object drops members whose value is undefined.
JSONstringifyValue(v) ==
    CASE v.t = "arr" ->
           LET elems == SelectSeq(v.items, LAMBDA e : e.key = "")
           IN [v EXCEPT !.items =
                  [i \in 1..Len(elems) |-> Entry("", JSONstringifyValue(elems[i].val))]]
      [] v.t = "obj" ->
           LET kept == SelectSeq(v.items, LAMBDA e : e.val.t # "undef")
           IN [v EXCEPT !.items =
                  [i \in 1..Len(kept) |->
                      Entry(kept[i].key, JSONstringifyValue(kept[i].val))]]
      [] OTHER -> v

\* JSON.stringify(value, null, 2) + '\n' as a file content.
JSONstringify(v) == JsonFile("indent2-nl", JSONstringifyValue(v))

(***************************************************************************)
(* The result of evaluating JavaScript that may throw.                     *)
(***************************************************************************)
Returned(v) == [thrown |-> "", val |-> v]
Thrown(e) == [thrown |-> e, val |-> JUndef]

\* o[k] ||= d
OrAssign(o, k, d) ==
    IF o.t \in {"undef", "null"} THEN Thrown("TypeError")
    ELSE IF Truthy(GetProp(o, k)) THEN Returned(o)
    ELSE IF ~IsObject(o) THEN Thrown("TypeError")
    ELSE Returned(SetProp(o, k, d))

RECURSIVE OrAssignAll(_, _)
\* o[k1] ||= d1; o[k2] ||= d2; ... for the pairs of `defaults`, in order.
OrAssignAll(o, defaults) ==
    IF defaults = <<>> THEN Returned(o)
    ELSE LET r == OrAssign(o, Head(defaults).key, Head(defaults).val)
         IN IF r.thrown # "" THEN r ELSE OrAssignAll(r.val, Tail(defaults))

(***************************************************************************)
(* The mutate closures the program passes to upsertJSON.                   *)
(***************************************************************************)
ScriptDefaults ==
    << Entry("prepare", JStr("husky")),
       Entry("lint", JStr("eslint .")),
       Entry("lint:fix", JStr("eslint . --fix")),
       Entry("format", JStr("prettier --write .")) >>

LintStagedDefaults ==
    << Entry("*.{js,jsx,ts,tsx}", JArr(<<JStr("eslint --fix"), JStr("prettier --write")>>)),
       Entry("*.{json,css,md}", JArr(<<JStr("prettier --write")>>)) >>

\* pkg[section] ||= {}; pkg[section][k] ||= d for each default.  The section
\* object is mutated in place, so pkg sees the new members.
OrAssignSection(pkg, section, defaults) ==
    LET r == OrAssign(pkg, section, JObj(<<>>))
    IN IF r.thrown # "" THEN r
       ELSE LET m == OrAssignAll(GetProp(r.val, section), defaults)
            IN IF m.thrown # "" THEN m
               ELSE Returned(SetProp(r.val, section, m.val))

\* The closure main passes for package.json.
packageJsonMutate(pkg) ==
    LET r == OrAssignSection(pkg, "scripts", ScriptDefaults)
    IN IF r.thrown # "" THEN r
       ELSE OrAssignSection(r.val, "lint-staged", LintStagedDefaults)

\* The characters of the strings the model spreads.
Chars(s) ==
    CASE s = "" -> <<>>
      [] s = "x" -> <<"x">>
      [] s = "ab" -> <<"a", "b">>

\* [...v]: the elements of an array, the characters of a string; anything
\* else that is truthy is not iterable.
SpreadIterable(v) ==
    CASE v.t = "arr" ->
           LET elems == SelectSeq(v.items, LAMBDA e : e.key = "")
           IN Returned(JArr([i \in 1..Len(elems) |-> elems[i].val]))
      [] v.t = "str" ->
           Returned(JArr([i \in 1..Len(Chars(v.s)) |-> JStr(Chars(v.s)[i])]))
      [] OTHER -> Thrown("TypeError")

\* {...v}: the own enumerable properties of v (none for null, undefined,
\* numbers and booleans; the indices for arrays and strings).
SpreadObject(v) ==
    CASE v.t = "obj" -> v
      [] v.t = "arr" ->
           LET elems == SelectSeq(v.items, LAMBDA e : e.key = "")
           IN JObj([i \in 1..Len(elems) |-> Entry(ToString(i - 1), elems[i].val)]
                   \o SelectSeq(v.items, LAMBDA e : e.key # ""))
      [] v.t = "str" ->
           JObj([i \in 1..Len(Chars(v.s)) |-> Entry(ToString(i - 1), JStr(Chars(v.s)[i]))])
      [] OTHER -> JObj(<<>>)

\* SameValueZero, the equality of Set: primitives by value, objects by
\* identity (two members of a parsed document are never the same object).
SameValueZero(a, b) == ~IsObject(a) /\ ~IsObject(b) /\ a = b

RECURSIVE SetOf(_, _)
\* new Set(vals): the values in insertion order, later duplicates dropped.
SetOf(vals, acc) ==
    IF vals = <<>> THEN acc
    ELSE IF \E i \in 1..Len(acc) : SameValueZero(acc[i], Head(vals))
         THEN SetOf(Tail(vals), acc)
         ELSE SetOf(Tail(vals), Append(acc, Head(vals)))

TailwindPlugin == "prettier-plugin-tailwindcss"

\* The members of an array value, as a sequence of values.
Elements(a) ==
    LET elems == SelectSeq(a.items, LAMBDA e : e.key = "")
    IN [i \in 1..Len(elems) |-> elems[i].val]

\* SetAdd with the bug of adding a value that is already a member.
SetAdd_always(vals, v) == Append(vals, v)

\* plugins.add(name) then [...plugins]
SetAdd(vals, v) ==
    IF \E i \in 1..Len(vals) : SameValueZero(vals[i], v) THEN vals ELSE Append(vals, v)

\* prettierMutate with the bug of pushing the plugin without the Set.
prettierMutate_push(cfg) ==
    IF cfg.t \in {"undef", "null"} THEN Thrown("TypeError")
    ELSE LET cur == GetProp(cfg, "plugins")
             it == SpreadIterable(IF Truthy(cur) THEN cur ELSE JArr(<<>>))
         IN IF it.thrown # "" THEN it
            ELSE Returned(SetProp(SpreadObject(cfg), "plugins",
                                  JArr(Append(Elements(it.val), JStr(TailwindPlugin)))))

\* The closure enableTailwind passes for .prettierrc.json.
prettierMutate(cfg) ==
    IF cfg.t \in {"undef", "null"} THEN Thrown("TypeError")
    ELSE LET cur == GetProp(cfg, "plugins")
             it == SpreadIterable(IF Truthy(cur) THEN cur ELSE JArr(<<>>))
         IN IF it.thrown # "" THEN it
            ELSE LET plugins == SetAdd(SetOf(Elements(it.val), <<>>), JStr(TailwindPlugin))
                 IN Returned(SetProp(SpreadObject(cfg), "plugins", JArr(plugins)))

TailwindConfigKey == "tailwindCSS.experimental.configFile"

\* vscodeMutate with the bug of returning a fresh object without ...cfg.
vscodeMutate_nospread(cfg) ==
    Returned(JObj(<<Entry(TailwindConfigKey, JStr("src/index.css"))>>))

\* The closure enableTailwind passes for .vscode/settings.json.
vscodeMutate(cfg) ==
    Returned(SetProp(SpreadObject(cfg), TailwindConfigKey, JStr("src/index.css")))

(***************************************************************************)
(* The file system of the project directory and the operations on it.  A   *)
(* world w is [fs, dirs, cmds, err]; an operation maps a world to the      *)
(* world it leaves, err being the error it threw.                          *)
(***************************************************************************)
Paths ==
    { "package.json", ".prettierrc.json", ".prettierignore", ".eslintrc.json",
      ".eslintignore", ".vscode/settings.json", "README.md", "src/App.jsx",
      "src/App.tsx", "vite.config.js", "vite.config.ts", "src/index.css",
      ".husky/pre-commit", "pnpm-lock.yaml", "yarn.lock" }

\* path.dirname, relative to the project root.
Dirname(p) ==
    CASE p = ".vscode/settings.json" -> ".vscode"
      [] p \in {"src/App.jsx", "src/App.tsx", "src/index.css"} -> "src"
      [] p = ".husky/pre-commit" -> ".husky"
      [] OTHER -> "."

World(f, d, c, e) == [fs |-> f, dirs |-> d, cmds |-> c, err |-> e]

existsSync(w, p) == w.fs[p].k # "none"

\* fs.writeFileSync: fails when the parent directory is missing.
writeFileSync(w, p, content) ==
    IF Dirname(p) \notin w.dirs THEN [w EXCEPT !.err = "ENOENT"]
    ELSE [w EXCEPT !.fs[p] = content]

\* fs.mkdirSync(dir, { recursive: true })
mkdirSync(w, d) == [w EXCEPT !.dirs = @ \cup {d}]

writeFile(w, p, content) == writeFileSync(mkdirSync(w, Dirname(p)), p, content)

\* JSON.parse(fs.readFileSync(p)): a text that is not JSON is a SyntaxError.
JSONparse(c) ==
    IF c.k = "json" THEN Returned(JSONparseValue(c.doc)) ELSE Thrown("SyntaxError")

\* mutate(data), for the closure named `mutate`.
applyMutate(mutate, data) ==
    CASE mutate = "packageJson" -> packageJsonMutate(data)
      [] mutate = "prettier" -> prettierMutate(data)
      [] mutate = "vscode" -> vscodeMutate(data)

upsertJSON(w, p, mutate) ==
    LET data == IF existsSync(w, p) THEN JSONparse(w.fs[p]) ELSE Returned(JObj(<<>>))
    IN IF data.thrown # "" THEN [w EXCEPT !.err = data.thrown]
       ELSE LET m == applyMutate(mutate, data.val)
            IN IF m.thrown # "" THEN [w EXCEPT !.err = m.thrown]
               ELSE LET updated == IF Truthy(m.val) THEN m.val ELSE data.val
                    IN writeFileSync(w, p, JSONstringify(updated))

(***************************************************************************)
(* Package-manager command lines, as sequences of words.  <<>> is null.    *)
(***************************************************************************)
depCmd(pm, deps, dev) ==
    IF Len(deps) = 0 THEN <<>>
    ELSE CASE pm = "npm" -> <<"npm", "i">> \o (IF dev THEN <<"-D">> ELSE <<>>) \o deps
           [] pm = "yarn" -> <<"yarn", "add">> \o (IF dev THEN <<"-D">> ELSE <<>>) \o deps
           [] pm = "pnpm" -> <<"pnpm", "add">> \o (IF dev THEN <<"-D">> ELSE <<>>) \o deps
           [] OTHER -> <<>>

installCmd(pm) ==
    CASE pm = "npm" -> <<"npm", "install">>
      [] pm = "yarn" -> <<"yarn", "install">>
      [] pm = "pnpm" -> <<"pnpm", "install">>
      [] OTHER -> <<"npm", "install">>

runScriptCmd(pm, script) ==
    CASE pm = "npm" -> <<"npm", "run", script>>
      [] pm = "yarn" -> <<"yarn", script>>
      [] pm = "pnpm" -> <<"pnpm", script>>
      [] OTHER -> <<"npm", "run", script>>

\* run(cmd): execSync throws when the process exits non-zero (ok = FALSE).
run(w, cmd, ok) ==
    [w EXCEPT !.cmds = Append(@, cmd), !.err = IF ok THEN "" ELSE "CommandFailed"]

\* if (cmd) run(cmd)
runIfCmd(w, cmd, ok) == IF cmd = <<>> THEN w ELSE run(w, cmd, ok)

(***************************************************************************)
(* enableTailwind, step by step.                                           *)
(***************************************************************************)
tailwindPkgs == <<"tailwindcss", "@tailwindcss/vite">>
tailwindDeps == <<"prettier-plugin-tailwindcss">>

TailwindImport == "import tailwindcss from '@tailwindcss/vite';\n"
PluginsReact == "plugins: [react()]"
PluginsReactSpaced == "plugins:[ react() ]"
PluginsReactTailwind == "plugins: [react(), tailwindcss()]"
PluginsReactOther == "plugins: [react(), svgr()]"
TailwindComment == "// see @tailwindcss/vite\n"
ReactImport == "import react from '@vitejs/plugin-react'\n"

\* fragment.includes('@tailwindcss/vite')
MentionsTailwindVite(frag) == frag \in {TailwindImport, TailwindComment}

\* /plugins:\s*\[\s*react\(\)\s*\]/ matches inside the fragment
MatchesPluginsReact(frag) == frag \in {PluginsReact, PluginsReactSpaced}

\* config.includes('@tailwindcss/vite')
configIncludesTailwind(config) ==
    \E i \in 1..Len(config) : MentionsTailwindVite(config[i])

\* config.replace(regex, 'plugins: [react(), tailwindcss()]'): the first
\* match only (the regex has no g flag).
replacePlugins(config) ==
    IF \E i \in 1..Len(config) : MatchesPluginsReact(config[i])
    THEN LET first == CHOOSE i \in 1..Len(config) :
                        /\ MatchesPluginsReact(config[i])
                        /\ \A j \in 1..(i-1) : ~MatchesPluginsReact(config[j])
         IN [config EXCEPT ![first] = PluginsReactTailwind]
    ELSE config

\* The text enableTailwind writes back for a vite config text.
rewriteViteConfig(config) ==
    replacePlugins(IF ~configIncludesTailwind(config)
                   THEN <<TailwindImport>> \o config
                   ELSE config)

twInstallPkgs(w, pm, ok) == runIfCmd(w, depCmd(pm, tailwindPkgs, FALSE), ok)

twInstallDeps(w, pm, ok) == runIfCmd(w, depCmd(pm, tailwindDeps, TRUE), ok)

\* Lines 149-164: read vite.config.js (it must exist), rewrite, write back.
twViteConfig(w) ==
    IF ~existsSync(w, "vite.config.js") THEN [w EXCEPT !.err = "ENOENT"]
    ELSE writeFile(w, "vite.config.js",
                   TextFile(rewriteViteConfig(w.fs["vite.config.js"].text)))

ensureIndexCss(w) ==
    IF ~existsSync(w, "src/index.css")
    THEN writeFile(w, "src/index.css", TextFile(<<"/* App styles */\n">>))
    ELSE w

TailwindDirective == "@import \"tailwindcss\";\n"

twIndexCss(w) ==
    LET e == ensureIndexCss(w)
    IN IF e.err # "" THEN e
       ELSE writeFile(e, "src/index.css", TextFile(<<TailwindDirective>>))

twPrettier(w) == upsertJSON(w, ".prettierrc.json", "prettier")

twVscode(w) == upsertJSON(w, ".vscode/settings.json", "vscode")

TailwindSection ==
    << "\n## Tailwind CSS\n\n",
       "- Tailwind CSS and prettier-plugin-tailwindcss are enabled.\n",
       "- Utility classes are automatically sorted by Prettier.\n" >>

\* fs.appendFileSync: creates the file when absent, else adds at its end.
appendFileSync(w, p, text) ==
    IF Dirname(p) \notin w.dirs THEN [w EXCEPT !.err = "ENOENT"]
    ELSE [w EXCEPT !.fs[p] =
            IF @.k = "none" THEN TextFile(text) ELSE [@ EXCEPT !.text = @ \o text]]

\* twReadme with the bug of writing the section over the file.
twReadme_overwrite(w) == writeFile(w, "README.md", TextFile(TailwindSection))

twReadme(w) == appendFileSync(w, "README.md", TailwindSection)

\* enableTailwind with the bug of the README appended right after the
\* stylesheet, before the two merges.
enableTailwind_readmeEarly(w, pm, ok1, ok2) ==
    LET a == twInstallPkgs(w, pm, ok1)
        b == IF a.err # "" THEN a ELSE twInstallDeps(a, pm, ok2)
        c == IF b.err # "" THEN b ELSE twViteConfig(b)
        d == IF c.err # "" THEN c ELSE twIndexCss(c)
        e == IF d.err # "" THEN d ELSE twReadme(d)
        f == IF e.err # "" THEN e ELSE twPrettier(e)
    IN IF f.err # "" THEN f ELSE twVscode(f)

\* Each step runs only when no earlier one threw.
enableTailwind(w, pm, ok1, ok2) ==
    LET a == twInstallPkgs(w, pm, ok1)
        b == IF a.err # "" THEN a ELSE twInstallDeps(a, pm, ok2)
        c == IF b.err # "" THEN b ELSE twViteConfig(b)
        d == IF c.err # "" THEN c ELSE twIndexCss(c)
        e == IF d.err # "" THEN d ELSE twPrettier(d)
        f == IF e.err # "" THEN e ELSE twVscode(e)
    IN IF f.err # "" THEN f ELSE twReadme(f)

(***************************************************************************)
(* The template registry (file-registry.mjs).  A registry is the sequence  *)
(* of its entries, in the order Object.entries gives them.                 *)
(***************************************************************************)
prettierrcJson ==
    JSONstringify(JObj(<< Entry("semi", JBool(TRUE)),
                          Entry("singleQuote", JBool(TRUE)),
                          Entry("trailingComma", JStr("es5")),
                          Entry("printWidth", JNum("80")),
                          Entry("tabWidth", JNum("2")),
                          Entry("bracketSpacing", JBool(TRUE)),
                          Entry("arrowParens", JStr("always")) >>))

prettierIgnore ==
    TextFile(<< "node_modules\n", "dist\n", "build\n", "coverage\n", ".next\n", "out\n",
                "package-lock.json\n", "yarn.lock\n", "pnpm-lock.yaml\n" >>)

EslintCommon ==
    << Entry("rules", JObj(<< Entry("prettier/prettier", JStr("error")),
                              Entry("react/prop-types", JStr("off")) >>)),
       Entry("settings", JObj(<< Entry("react",
                                       JObj(<<Entry("version", JStr("detect"))>>)) >>)) >>

EslintEnv ==
    Entry("env", JObj(<< Entry("browser", JBool(TRUE)),
                         Entry("es2021", JBool(TRUE)),
                         Entry("node", JBool(TRUE)) >>))

eslintrcTypeScript ==
    JSONstringify(JObj(
        << EslintEnv,
           Entry("parser", JStr("@typescript-eslint/parser")),
           Entry("parserOptions", JObj(<<Entry("project", JBool(FALSE))>>)),
           Entry("extends", JArr(<< JStr("eslint:recommended"),
                                    JStr("plugin:@typescript-eslint/recommended"),
                                    JStr("plugin:react/recommended"),
                                    JStr("plugin:react-hooks/recommended"),
                                    JStr("plugin:prettier/recommended") >>)),
           Entry("plugins", JArr(<< JStr("@typescript-eslint"), JStr("react"),
                                    JStr("react-hooks"), JStr("prettier") >>)) >>
        \o EslintCommon))

eslintrcJavaScript ==
    JSONstringify(JObj(
        << EslintEnv,
           Entry("extends", JArr(<< JStr("eslint:recommended"),
                                    JStr("plugin:react/recommended"),
                                    JStr("plugin:react-hooks/recommended"),
                                    JStr("plugin:prettier/recommended") >>)),
           Entry("plugins", JArr(<< JStr("react"), JStr("react-hooks"),
                                    JStr("prettier") >>)) >>
        \o EslintCommon))

eslintIgnore ==
    TextFile(<< "dist\n", "node_modules\n", "vite.config.*.ts\n", "vite.config.*.js\n" >>)

vsCodeSettings ==
    JSONstringify(JObj(
        << Entry("editor.defaultFormatter", JStr("esbenp.prettier-vscode")),
           Entry("editor.formatOnSave", JBool(TRUE)),
           Entry("editor.formatOnSaveMode", JStr("modifications")),
           Entry("prettier.prettierPath", JStr("./node_modules/prettier")),
           Entry("eslint.validate", JArr(<< JStr("javascript"), JStr("javascriptreact"),
                                            JStr("typescript"), JStr("typescriptreact") >>)),
           Entry("editor.codeActionsOnSave",
                 JObj(<< Entry("source.fixAll", JStr("explicit")),
                         Entry("source.fixAll.eslint", JStr("explicit")) >>)) >>))

appTypeScript == TextFile(<<"App.tsx: Hello, React + Vite">>)
appJavaScript == TextFile(<<"App.jsx: Hello, React + Vite">>)
appTailwindTypeScript == TextFile(<<"App.tsx: Hello, React + Vite + Tailwind">>)
appTailwindJavaScript == TextFile(<<"App.jsx: Hello, React + Vite + Tailwind">>)

readme(appName, packageManager) ==
    TextFile(<<"# ", appName, "\n", "badges, description\n", "## Scripts\n">>
             \o runScriptCmd(packageManager, "dev") \o <<" - Start development server\n">>
             \o runScriptCmd(packageManager, "build") \o <<" - Build for production\n">>
             \o runScriptCmd(packageManager, "preview") \o <<" - Preview production build\n">>
             \o runScriptCmd(packageManager, "lint") \o <<" - Run ESLint\n">>
             \o runScriptCmd(packageManager, "lint:fix") \o <<" - Fix ESLint issues\n">>
             \o runScriptCmd(packageManager, "format") \o <<" - Format code with Prettier\n">>)

FileEntry(p, c) == [path |-> p, content |-> c]

tsTemplates(withTailwind) ==
    << FileEntry(".eslintrc.json", eslintrcTypeScript),
       FileEntry("src/App.tsx", IF withTailwind THEN appTailwindTypeScript ELSE appTypeScript) >>

jsTemplates(withTailwind) ==
    << FileEntry(".eslintrc.json", eslintrcJavaScript),
       FileEntry("src/App.jsx", IF withTailwind THEN appTailwindJavaScript ELSE appJavaScript) >>

\* getFileRegistry with the bug of a registry without the README (as the
\* registry of templates.mjs is).
getFileRegistry_noReadme(appName, packageManager, useTypeScript, withTailwind) ==
    << FileEntry(".prettierrc.json", prettierrcJson),
       FileEntry(".prettierignore", prettierIgnore),
       FileEntry(".eslintignore", eslintIgnore),
       FileEntry(".vscode/settings.json", vsCodeSettings) >>
    \o (IF useTypeScript THEN tsTemplates(withTailwind) ELSE jsTemplates(withTailwind))

\* getFileRegistry with the bug of an inverted language test.
getFileRegistry_inverted(appName, packageManager, useTypeScript, withTailwind) ==
    << FileEntry(".prettierrc.json", prettierrcJson),
       FileEntry(".prettierignore", prettierIgnore),
       FileEntry(".eslintignore", eslintIgnore),
       FileEntry(".vscode/settings.json", vsCodeSettings),
       FileEntry("README.md", readme(appName, packageManager)) >>
    \o (IF useTypeScript THEN jsTemplates(withTailwind) ELSE tsTemplates(withTailwind))

getFileRegistry(appName, packageManager, useTypeScript, withTailwind) ==
    << FileEntry(".prettierrc.json", prettierrcJson),
       FileEntry(".prettierignore", prettierIgnore),
       FileEntry(".eslintignore", eslintIgnore),
       FileEntry(".vscode/settings.json", vsCodeSettings),
       FileEntry("README.md", readme(appName, packageManager)) >>
    \o (IF useTypeScript THEN tsTemplates(withTailwind) ELSE jsTemplates(withTailwind))

RECURSIVE writeAllFilesFromRegistry(_, _)
writeAllFilesFromRegistry(w, fileRegistry) ==
    IF fileRegistry = <<>> \/ w.err # "" THEN w
    ELSE writeAllFilesFromRegistry(
             writeFile(w, Head(fileRegistry).path, Head(fileRegistry).content),
             Tail(fileRegistry))

(***************************************************************************)
(* The documents and texts the overlay engine is started on.               *)
(***************************************************************************)
SeqsUpTo(S, n) == UNION {[1..m -> S] : m \in 0..n}

\* An object of the entries whose value is not undefined (an absent member).
MkObj(entries) == JObj(SelectSeq(entries, LAMBDA e : e.val.t # "undef"))

Falsy == {JNull, JBool(FALSE), JNum("0"), JStr("")}
Scalars == Falsy \cup {JStr("x"), JNum("1"), JBool(TRUE)}
Layouts == {"compact", "indent2-nl"}

ScriptsObjects ==
    { MkObj(<< Entry("dev", JStr("vite")), Entry("prepare", a), Entry("lint", b),
               Entry("lint:fix", c), Entry("format", d) >>) :
        a \in {JUndef} \cup Falsy \cup {JStr("x")},
        b \in {JUndef, JStr(""), JStr("x")},
        c \in {JUndef, JBool(FALSE)},
        d \in {JUndef, JStr("x")} }

LintStagedObjects ==
    { MkObj(<< Entry("*.{js,jsx,ts,tsx}", a), Entry("*.css", JArr(<<JStr("stylelint")>>)),
               Entry("*.{json,css,md}", b) >>) :
        a \in {JUndef, JNull, JStr(""), JArr(<<>>), JArr(<<JStr("x")>>)},
        b \in {JUndef, JNull, JStr(""), JArr(<<>>), JArr(<<JStr("x")>>)} }

SectionOthers == {JUndef} \cup Scalars \cup {JArr(<<>>), JArr(<<JStr("x")>>)}

PackageDocs ==
    { MkObj(<< Entry("name", JStr("x")), Entry("scripts", sc) >>) :
        sc \in ScriptsObjects \cup SectionOthers }
    \cup
    { MkObj(<< Entry("lint-staged", ls), Entry("name", JStr("x")), Entry("scripts", sc) >>) :
        sc \in {JUndef, JObj(<<Entry("dev", JStr("vite"))>>)},
        ls \in LintStagedObjects \cup SectionOthers }

\* Documents whose text differs from what JSON.stringify would write: a
\* number spelled 1.0, a duplicated key, an integer-like key written late.
OddPackageDocs ==
    { JNull, JNum("0"), JStr("x"), JArr(<<JStr("x")>>), JObj(<<>>),
      JObj(<< Entry("version", JNum("1.0")), Entry("name", JStr("x")),
              Entry("0", JStr("x")), Entry("name", JStr("ab")) >>) }

PluginNames == {TailwindPlugin, "a", "b"}

PluginsValues ==
    {JUndef} \cup {JArr([i \in 1..Len(q) |-> JStr(q[i])]) : q \in SeqsUpTo(PluginNames, MaxPlugins)}
    \cup {JNull, JStr(""), JStr("ab"), JNum("1"), JBool(FALSE), JObj(<<>>),
          JArr(<<JObj(<<>>), JObj(<<>>)>>)}

PrettierDocs ==
    { MkObj(<< Entry("semi", sm), Entry("plugins", pl), Entry("tabWidth", JNum("4.0")) >>) :
        sm \in {JUndef, JBool(FALSE)}, pl \in PluginsValues }

OddPrettierDocs ==
    { JNull, JStr("ab"), JArr(<<JStr("x")>>), JObj(<<>>),
      JObj(<< Entry("plugins", JArr(<<JStr("a")>>)), Entry("semi", JBool(TRUE)),
              Entry("plugins", JArr(<<JStr("b")>>)) >>) }

VscodeDocs ==
    { MkObj(<< Entry("editor.formatOnSave", a), Entry(TailwindConfigKey, b),
               Entry("files.eol", c) >>) :
        a \in {JUndef, JBool(FALSE)},
        b \in {JUndef, JNull, JStr("src/index.css"), JStr("x")},
        c \in {JUndef, JStr("x")} }

OddVscodeDocs ==
    { JNull, JStr("ab"), JArr(<<JStr("x")>>),
      JObj(<< Entry("files.eol", JStr("x")), Entry("1", JNum("1.0")), Entry("0", JNull) >>) }

JsonFiles(docs, odd) ==
    {JsonFile("compact", d) : d \in docs}
    \cup {JsonFile(l, d) : l \in Layouts, d \in odd}
    \cup {NoFile, TextFile(<<"// not JSON\n">>)}

ConfigFragments ==
    { ReactImport, PluginsReact, PluginsReactSpaced, PluginsReactTailwind,
      PluginsReactOther, TailwindImport, TailwindComment }

ViteConfigs == {TextFile(t) : t \in SeqsUpTo(ConfigFragments, MaxConfigLen)} \cup {NoFile}

ReadmeFragments == {"# app\n", "notes\n", TailwindSection[1]}

Readmes == {TextFile(t) : t \in SeqsUpTo(ReadmeFragments, MaxReadmeLen)} \cup {NoFile}

\* What `npm create vite` leaves for the react template.
GeneratedPackageJson ==
    JsonFile("indent2-nl",
             JObj(<< Entry("name", JStr("app")),
                     Entry("private", JBool(TRUE)),
                     Entry("scripts", JObj(<< Entry("dev", JStr("vite")),
                                              Entry("build", JStr("vite build")),
                                              Entry("lint", JStr("eslint .")) >>)) >>))

GeneratedViteConfig == TextFile(<<ReactImport, PluginsReact>>)

\* A project as the base overlay leaves it.
BaseWorld ==
    LET empty == World([p \in Paths |-> NoFile], {"."}, <<>>, "")
        gen == [empty EXCEPT !.dirs = {".", "src"},
                             !.fs["package.json"] = GeneratedPackageJson,
                             !.fs["vite.config.js"] = GeneratedViteConfig,
                             !.fs["src/index.css"] = TextFile(<<"body { margin: 0 }\n">>)]
    IN writeAllFilesFromRegistry(gen, getFileRegistry("app", "npm", FALSE, FALSE))

OverlayStarts ==
    {[BaseWorld EXCEPT !.fs["package.json"] = c] : c \in JsonFiles(PackageDocs, OddPackageDocs)}
    \cup {[BaseWorld EXCEPT !.fs[".prettierrc.json"] = c] : c \in JsonFiles(PrettierDocs, OddPrettierDocs)}
    \cup {[BaseWorld EXCEPT !.fs[".vscode/settings.json"] = c] : c \in JsonFiles(VscodeDocs, OddVscodeDocs)}
    \cup {[BaseWorld EXCEPT !.fs[".vscode/settings.json"] = NoFile,
                            !.dirs = @ \ {".vscode"}]}
    \cup {[BaseWorld EXCEPT !.fs["vite.config.js"] = c] : c \in ViteConfigs}
    \cup {[BaseWorld EXCEPT !.fs["README.md"] = c] : c \in Readmes}
    \cup {[BaseWorld EXCEPT !.fs["src/index.css"] = NoFile]}

(***************************************************************************)
(* The overlay engine on its own: starting from any of the worlds above,   *)
(* the merges, the build-config rewrite and enableTailwind are applied, in *)
(* any order, up to MaxOps times.                                          *)
(***************************************************************************)
\* The world an operation starts in; cmds collects the commands it issues.
Now == World(fs, dirs, <<>>, "")

\* The operation named `op` has taken the world to w.
Applied(op, w) ==
    /\ fs' = w.fs
    /\ dirs' = w.dirs
    /\ cmds' = w.cmds
    /\ err' = w.err
    /\ prev' = World(fs, dirs, <<>>, err)
    /\ last' = op
    /\ streak' = IF last = op THEN streak + 1 ELSE 1
    /\ nops' = nops + 1
    /\ start' = start
    /\ UNCHANGED mainVars

\* Lines 241-255 of main: the package.json merge.
mergePackageJson(w) == upsertJSON(w, "package.json", "packageJson")

UpsertPackageJson ==
    /\ nops < MaxOps
    /\ Applied("upsertPackageJson", mergePackageJson(Now))

UpsertPrettier ==
    /\ nops < MaxOps
    /\ Applied("upsertPrettier", twPrettier(Now))

UpsertVscode ==
    /\ nops < MaxOps
    /\ Applied("upsertVscode", twVscode(Now))

RewriteViteConfig ==
    /\ nops < MaxOps
    /\ Applied("rewriteViteConfig", twViteConfig(Now))

\* failing = 1 or 2: the first or the second install command exits non-zero.
EnableTailwind ==
    /\ nops < MaxOps
    /\ \E pm \in {"npm", "bun"}, failing \in 0..2 :
        Applied("enableTailwind", enableTailwind(Now, pm, failing # 1, failing # 2))

NoOpts ==
    [unknown |-> FALSE, help |-> FALSE, named |-> FALSE, template |-> "",
     pm |-> "", tailwind |-> FALSE]

InitOverlay ==
    /\ \E w \in OverlayStarts :
        /\ fs = w.fs
        /\ dirs = w.dirs
        /\ prev = w
        /\ start = w
    /\ cmds = <<>>
    /\ err = ""
    /\ last = ""
    /\ streak = 0
    /\ nops = 0
    /\ pc = "overlay"
    /\ opts = NoOpts
    /\ chosenPM = ""
    /\ exitCode = -1
    /\ trace = <<>>
    /\ printed = <<>>
    /\ runs = 0

NextOverlay ==
    \/ UpsertPackageJson
    \/ UpsertPrettier
    \/ UpsertVscode
    \/ RewriteViteConfig
    \/ EnableTailwind

SpecOverlay == InitOverlay /\ [][NextOverlay]_vars

(***************************************************************************)
(* Properties of the overlay engine (checked under SpecOverlay).           *)
(***************************************************************************)
MergeOps == {"upsertPackageJson", "upsertPrettier", "upsertVscode"}

MergePath(op) ==
    CASE op = "upsertPackageJson" -> "package.json"
      [] op = "upsertPrettier" -> ".prettierrc.json"
      [] op = "upsertVscode" -> ".vscode/settings.json"

\* The top-level keys the closure of a merge refers to.
MergeKeys(op) ==
    CASE op = "upsertPackageJson" -> {"scripts", "lint-staged"}
      [] op = "upsertPrettier" -> {"plugins"}
      [] op = "upsertVscode" -> {TailwindConfigKey}

\* The document upsertJSON hands to mutate for the file content c.
DocOf(c) == IF c.k = "json" THEN JSONparseValue(c.doc) ELSE JObj(<<>>)

Keys(o) == {o.items[i].key : i \in 1..Len(o.items)}

\* C1: a merge applied twice in a row with the same closure leaves, after
\* the second call, the file (and every other file) as after the first call.
C1_MergeIdempotent ==
    (last \in MergeOps /\ streak >= 2) => (fs = prev.fs /\ dirs = prev.dirs)

\* The same closure has run twice and returned twice, the first call having
\* changed the file it was started on.
C1_Witness ==
    /\ last \in MergeOps
    /\ streak = 2
    /\ nops = 2
    /\ err = ""
    /\ prev.err = ""
    /\ fs # start.fs

\* C2: a merge that writes keeps every top-level key of the document that
\* its closure does not refer to, with the value it had.
C2_MergeKeepsOtherKeys ==
    (last \in MergeOps /\ err = "" /\ prev.fs[MergePath(last)].k \in {"none", "json"}) =>
        LET D == DocOf(prev.fs[MergePath(last)])
            W == fs[MergePath(last)].doc
        IN D.t = "obj" =>
              \A K \in Keys(D) \ MergeKeys(last) :
                  HasProp(W, K) /\ GetProp(W, K) = GetProp(D, K)

\* A merge has rewritten a document that held a key of the user's.
C2_Witness ==
    /\ last = "upsertVscode"
    /\ err = ""
    /\ HasProp(DocOf(prev.fs[".vscode/settings.json"]), "files.eol")
    /\ ~HasProp(DocOf(prev.fs[".vscode/settings.json"]), TailwindConfigKey)
    /\ HasProp(fs[".vscode/settings.json"].doc, TailwindConfigKey)

\* The members of section `sec` of document D that are present keep their
\* value in W, and those that are missing get their default.
SectionSetIfAbsent(D, W, sec, defaults) ==
    LET Ds == GetProp(D, sec)
        Ws == GetProp(W, sec)
    IN /\ (HasProp(D, sec) /\ Ds.t # "obj") => Ws = Ds
       /\ (Ws.t = "obj") =>
             \A i \in 1..Len(defaults) :
                 LET k == defaults[i].key
                 IN IF HasProp(Ds, k)
                    THEN GetProp(Ws, k) = GetProp(Ds, k)
                    ELSE GetProp(Ws, k) = defaults[i].val

\* C3: the package.json merge writes a default only for a managed key that
\* is missing; a managed key that is present keeps its value, whatever it is.
C3_PackageJsonSetIfAbsent ==
    (last = "upsertPackageJson" /\ err = "" /\ prev.fs["package.json"].k \in {"none", "json"}) =>
        LET D == DocOf(prev.fs["package.json"])
            W == fs["package.json"].doc
        IN D.t = "obj" =>
              /\ SectionSetIfAbsent(D, W, "scripts", ScriptDefaults)
              /\ SectionSetIfAbsent(D, W, "lint-staged", LintStagedDefaults)

Count(q, x) == Cardinality({i \in 1..Len(q) : q[i] = x})

FirstIndex(q, x) == CHOOSE i \in 1..Len(q) : q[i] = x /\ \A j \in 1..(i-1) : q[j] # x

\* The plugins array of a formatter config (<<>> when the key is absent).
PluginsOf(c) ==
    LET v == GetProp(DocOf(c), "plugins")
    IN IF v.t = "arr" THEN Elements(v) ELSE <<>>

\* The formatter config is absent, or an object whose plugins key is absent
\* or an array of plugin names.
HasPluginList(c) ==
    /\ c.k \in {"none", "json"}
    /\ DocOf(c).t = "obj"
    /\ LET v == GetProp(DocOf(c), "plugins")
       IN \/ v.t = "undef"
          \/ v.t = "arr" /\ \A i \in 1..Len(v.items) : v.items[i].val.t = "str"

\* C4: started on a config with a plugin list (or none), any number of
\* applications of the formatter merge leave a list that holds the tailwind
\* plugin exactly once and every other plugin of the original list, in the
\* original relative order.
C4_PluginsAreASet ==
    (last = "upsertPrettier" /\ streak = nops /\ HasPluginList(start.fs[".prettierrc.json"])) =>
        LET old == PluginsOf(start.fs[".prettierrc.json"])
            new == PluginsOf(fs[".prettierrc.json"])
            others == SeqToSet(old) \ {JStr(TailwindPlugin)}
        IN /\ err = ""
           /\ GetProp(fs[".prettierrc.json"].doc, "plugins").t = "arr"
           /\ Count(new, JStr(TailwindPlugin)) = 1
           /\ \A a \in others : Count(new, a) >= 1
           /\ \A a, b \in others :
                 FirstIndex(old, a) < FirstIndex(old, b) =>
                     FirstIndex(new, a) < FirstIndex(new, b)

\* The merge has run twice on a list of two or more plugins that did not
\* start with the tailwind plugin.
C4_Witness ==
    /\ last = "upsertPrettier"
    /\ streak = 2
    /\ nops = 2
    /\ HasPluginList(start.fs[".prettierrc.json"])
    /\ \E q \in SeqsUpTo(PluginNames, MaxPlugins) :
          /\ PluginsOf(start.fs[".prettierrc.json"]) = [i \in 1..Len(q) |-> JStr(q[i])]
          /\ Len(q) >= 2
          /\ q[1] # TailwindPlugin
    /\ Count(PluginsOf(fs[".prettierrc.json"]), JStr(TailwindPlugin)) = 1

\* C5: the build-config rewrite applied twice gives the text it gives
\* applied once, and it never leaves more than one tailwind import or more
\* than one tailwindcss() plugin list in a text that had at most one.
C5_ViteRewriteIdempotent ==
    (last = "rewriteViteConfig" /\ err = "") =>
        LET old == start.fs["vite.config.js"].text
            new == fs["vite.config.js"].text
        IN /\ streak >= 2 => fs["vite.config.js"] = prev.fs["vite.config.js"]
           /\ (streak = nops /\ Count(old, TailwindImport) <= 1
                             /\ Count(old, PluginsReactTailwind) <= 1) =>
                 /\ Count(new, TailwindImport) <= 1
                 /\ Count(new, PluginsReactTailwind) <= 1

\* The files enableTailwind writes.
TailwindFiles ==
    {"vite.config.js", "src/index.css", ".prettierrc.json", ".vscode/settings.json", "README.md"}

\* C6: enableTailwind run again, after a run that succeeded, leaves every
\* file it touches as the first run left it.
C6_EnableTailwindIdempotent ==
    (last = "enableTailwind" /\ streak >= 2 /\ prev.err = "" /\ err = "") =>
        \A p \in TailwindFiles : fs[p] = prev.fs[p]

\* C7: enableTailwind leaves README.md as its prior content followed by
\* the Tailwind section (and untouched when it fails before that step).
C7_ReadmeAppendOnly ==
    (last = "enableTailwind") =>
        IF err = ""
        THEN /\ fs["README.md"].k = "text"
             /\ fs["README.md"].text = prev.fs["README.md"].text \o TailwindSection
        ELSE fs["README.md"] = prev.fs["README.md"]

\* enableTailwind has succeeded on a project whose README had content.
C7_Witness ==
    /\ last = "enableTailwind"
    /\ err = ""
    /\ Len(prev.fs["README.md"].text) = MaxReadmeLen
    /\ Len(fs["README.md"].text) = MaxReadmeLen + Len(TailwindSection)

\* The document a merge writes when the file does not exist.
FreshDoc(op) ==
    CASE op = "upsertPackageJson" -> packageJsonMutate(JObj(<<>>)).val
      [] op = "upsertPrettier" -> prettierMutate(JObj(<<>>)).val
      [] op = "upsertVscode" -> vscodeMutate(JObj(<<>>)).val

\* C8: upsertJSON on a path that does not exist creates the file from the
\* empty object, creating the parent directory when it is missing.
C8_UpsertCreatesFileAndParents ==
    (last \in MergeOps /\ prev.fs[MergePath(last)].k = "none") =>
        /\ err = ""
        /\ Dirname(MergePath(last)) \in dirs
        /\ fs[MergePath(last)] = JSONstringify(FreshDoc(last))

(***************************************************************************)
(* main: one run of the tool, a step at a time.                            *)
(*                                                                         *)
(* The external processes are the environment: each may exit non-zero, and *)
(* the generator leaves a project of its choosing.  What the package       *)
(* manager does to package.json (its dependency sections) and to lock      *)
(* files after detection is outside the files the tool writes and is not   *)
(* modelled.                                                               *)
(***************************************************************************)
appName == "app"

PackageManagers == {"npm", "yarn", "pnpm"}

\* Values of --package-manager: parseArgs accepts any string.
RequestedManagers == PackageManagers \cup {"bun"}

Templates == {"react", "react-ts"}

Options ==
    [unknown : BOOLEAN, help : BOOLEAN, named : BOOLEAN, template : Templates,
     pm : RequestedManagers, tailwind : BOOLEAN]

useTypeScript == opts.template = "react-ts"

baseDeps ==
    << "prettier", "eslint", "eslint-config-prettier", "eslint-plugin-prettier",
       "eslint-plugin-react", "eslint-plugin-react-hooks", "husky", "lint-staged" >>

tsDeps == << "@typescript-eslint/parser", "@typescript-eslint/eslint-plugin" >>

allDev(ts) == IF ts THEN baseDeps \o tsDeps ELSE baseDeps

generatorCmd(template) ==
    <<"npm", "create", "vite@latest", appName, "--", "--template", template>>

gitCheckCmd == <<"git", "rev-parse", "--is-inside-work-tree">>
gitInitCmd == <<"git", "init">>
huskyInitCmd == <<"npx", "husky", "init">>

\* detectPM with the bug of looking for yarn.lock first.
detectPM_yarnFirst(w, pm) ==
    IF existsSync(w, "yarn.lock") THEN "yarn"
    ELSE IF existsSync(w, "pnpm-lock.yaml") THEN "pnpm"
    ELSE pm

\* Lines 220-224: the manager the lock files name, else the requested one.
detectPM(w, pm) ==
    IF existsSync(w, "pnpm-lock.yaml") THEN "pnpm"
    ELSE IF existsSync(w, "yarn.lock") THEN "yarn"
    ELSE pm

\* The projects the generator may leave: its package.json, the build-tool
\* config (named after the template's language), the lock files, whether
\* it wrote a stylesheet, and the editor settings of a directory that was
\* there before it.
GeneratedPackageJsons ==
    { GeneratedPackageJson,
      JsonFile("indent2-nl",
               JObj(<< Entry("name", JStr("app")),
                       Entry("scripts", JObj(<< Entry("dev", JStr("vite")),
                                                Entry("prepare", JStr("")) >>)),
                       Entry("lint-staged", JNull) >>)),
      TextFile(<<"// not JSON\n">>) }

GeneratedViteConfigs ==
    { GeneratedViteConfig,
      TextFile(<<ReactImport, PluginsReactOther>>),
      TextFile(<<TailwindComment, ReactImport, PluginsReactSpaced>>) }

\* Editor settings the directory may hold before the tool's overlay: none,
\* or the user's own.
UserVscodeSettings ==
    { NoFile,
      JsonFile("indent2-nl", JObj(<< Entry("editor.tabSize", JNum("4")) >>)) }

viteConfigName(template) == IF template = "react-ts" THEN "vite.config.ts" ELSE "vite.config.js"

GeneratedProjects(template) ==
    { [fs |-> [p \in Paths |->
                 CASE p = "package.json" -> pkg
                   [] p = viteConfigName(template) -> vite
                   [] p = "README.md" -> TextFile(<<"# React + Vite\n">>)
                   [] p = "src/index.css" ->
                        IF css THEN TextFile(<<"body { margin: 0 }\n">>) ELSE NoFile
                   [] p = "pnpm-lock.yaml" -> IF pnpmLock THEN TextFile(<<"lock\n">>) ELSE NoFile
                   [] p = "yarn.lock" -> IF yarnLock THEN TextFile(<<"lock\n">>) ELSE NoFile
                   [] p = ".vscode/settings.json" -> vscode
                   [] OTHER -> NoFile],
       dirs |-> IF vscode = NoFile THEN {".", "src"} ELSE {".", "src", ".vscode"}] :
        pkg \in GeneratedPackageJsons, vite \in GeneratedViteConfigs,
        css \in BOOLEAN, pnpmLock \in BOOLEAN, yarnLock \in BOOLEAN,
        vscode \in UserVscodeSettings }

Here == World(fs, dirs, cmds, "")

\* Step with the bug of a handler that logs the error and exits 0.
Step_exitZero(step, w, next) ==
    /\ fs' = w.fs
    /\ dirs' = w.dirs
    /\ cmds' = w.cmds
    /\ err' = w.err
    /\ trace' = Append(trace, step)
    /\ IF w.err = ""
       THEN /\ pc' = next
            /\ exitCode' = exitCode
            /\ printed' = printed
       ELSE /\ pc' = "exited"
            /\ exitCode' = 0
            /\ printed' = Append(printed, <<"stderr", "Bootstrap failed:", w.err>>)
    /\ UNCHANGED <<opts, chosenPM, runs, overlayVars>>

\* The step named `step` has left the world w; the run goes on at `next`,
\* or ends in main().catch (lines 312-315) when the step threw.
Step(step, w, next) ==
    /\ fs' = w.fs
    /\ dirs' = w.dirs
    /\ cmds' = w.cmds
    /\ err' = w.err
    /\ trace' = Append(trace, step)
    /\ IF w.err = ""
       THEN /\ pc' = next
            /\ exitCode' = exitCode
            /\ printed' = printed
       ELSE /\ pc' = "exited"
            /\ exitCode' = 1
            /\ printed' = Append(printed, <<"stderr", "Bootstrap failed:", w.err>>)
    /\ UNCHANGED <<opts, chosenPM, runs, overlayVars>>

\* parseArgs with the bug of asking for usage on --help only: a run without
\* an application name goes on to the generator.
ParseArgs_helpOnly ==
    /\ pc = "start"
    /\ IF opts.unknown
       THEN Step("parseArgs", [Here EXCEPT !.err = "TypeError"], "exited")
       ELSE IF opts.help
            THEN /\ pc' = "exited"
                 /\ exitCode' = 0
                 /\ printed' = Append(printed, <<"stdout", "usage">>)
                 /\ trace' = Append(trace, "printHelp")
                 /\ UNCHANGED <<fs, dirs, cmds, err, opts, chosenPM, runs, overlayVars>>
            ELSE Step("parseArgs", Here, "generate")

\* Lines 197-205: parseArgs (strict: an unknown option throws), help.
ParseArgs ==
    /\ pc = "start"
    /\ IF opts.unknown
       THEN Step("parseArgs", [Here EXCEPT !.err = "TypeError"], "exited")
       ELSE IF opts.help \/ ~opts.named
            THEN /\ pc' = "exited"
                 /\ exitCode' = 0
                 /\ printed' = Append(printed, <<"stdout", "usage">>)
                 /\ trace' = Append(trace, "printHelp")
                 /\ UNCHANGED <<fs, dirs, cmds, err, opts, chosenPM, runs, overlayVars>>
            ELSE Step("parseArgs", Here, "generate")

\* Line 215: the generator runs; when it exits 0 it has left a project, or
\* (cancelled by the user) nothing at all.
Generate ==
    /\ pc = "generate"
    /\ \/ Step("generator", run(Here, generatorCmd(opts.template), FALSE), "chdir")
       \/ Step("generator", run(Here, generatorCmd(opts.template), TRUE), "chdir")
       \/ \E g \in GeneratedProjects(opts.template) :
             Step("generator",
                  run([Here EXCEPT !.fs = g.fs, !.dirs = g.dirs \cup {appName}],
                      generatorCmd(opts.template), TRUE),
                  "chdir")

\* Line 218: process.chdir throws when the directory does not exist.
Chdir ==
    /\ pc = "chdir"
    /\ Step("chdir", IF appName \in dirs THEN Here ELSE [Here EXCEPT !.err = "ENOENT"], "detect")

DetectPM ==
    /\ pc = "detect"
    /\ fs' = fs
    /\ dirs' = dirs
    /\ cmds' = cmds
    /\ err' = err
    /\ chosenPM' = detectPM(Here, opts.pm)
    /\ pc' = "registry"
    /\ trace' = Append(trace, "detectPM")
    /\ start' = World(fs, dirs, <<>>, "")
    /\ UNCHANGED <<opts, exitCode, printed, runs, last, streak, prev, nops>>

WriteRegistry ==
    /\ pc = "registry"
    /\ Step("writeAllFilesFromRegistry",
            writeAllFilesFromRegistry(
                Here, getFileRegistry(appName, chosenPM, useTypeScript, opts.tailwind)),
            "packageJson")

MergePackageJson ==
    /\ pc = "packageJson"
    /\ Step("upsertPackageJson", mergePackageJson(Here), "baseDeps")

\* Lines 273-275.
installBase(w, pm, ts, ok) == runIfCmd(w, depCmd(pm, allDev(ts), TRUE), ok)

InstallBase ==
    /\ pc = "baseDeps"
    /\ \E ok \in BOOLEAN :
          Step("installBase", installBase(Here, chosenPM, useTypeScript, ok),
               IF opts.tailwind THEN "twPkgs" ELSE "install")

TwInstallPkgs ==
    /\ pc = "twPkgs"
    /\ \E ok \in BOOLEAN : Step("twInstallPkgs", twInstallPkgs(Here, chosenPM, ok), "twDeps")

TwInstallDeps ==
    /\ pc = "twDeps"
    /\ \E ok \in BOOLEAN : Step("twInstallDeps", twInstallDeps(Here, chosenPM, ok), "twVite")

TwViteConfig ==
    /\ pc = "twVite"
    /\ Step("twViteConfig", twViteConfig(Here), "twCss")

TwIndexCss ==
    /\ pc = "twCss"
    /\ Step("twIndexCss", twIndexCss(Here), "twPrettier")

TwPrettier ==
    /\ pc = "twPrettier"
    /\ Step("twPrettier", twPrettier(Here), "twVscode")

TwVscode ==
    /\ pc = "twVscode"
    /\ Step("twVscode", twVscode(Here), "twReadme")

TwReadme ==
    /\ pc = "twReadme"
    /\ Step("twReadme", twReadme(Here), "install")

\* Line 282.
FinalInstall ==
    /\ pc = "install"
    /\ \E ok \in BOOLEAN : Step("install", run(Here, installCmd(chosenPM), ok), "gitCheck")

\* GitCheck with the bug of no try/catch around the check: outside a work
\* tree the run ends.
GitCheck_uncaught ==
    /\ pc = "gitCheck"
    /\ \E inside \in BOOLEAN : Step("gitCheck", run(Here, gitCheckCmd, inside), "husky")

\* Lines 284-290: outside a work tree the check exits non-zero; the error
\* is caught, the catch block logs and goes on to git init.
GitCheck ==
    /\ pc = "gitCheck"
    /\ \/ Step("gitCheck", run(Here, gitCheckCmd, TRUE), "husky")
       \/ /\ fs' = fs
          /\ dirs' = dirs
          /\ cmds' = Append(cmds, gitCheckCmd)
          /\ err' = ""
          /\ trace' = Append(trace, "gitCheck")
          /\ printed' = Append(printed, <<"stdout", "Initializing git repo">>)
          /\ pc' = "gitInit"
          /\ UNCHANGED <<opts, chosenPM, exitCode, runs, overlayVars>>

GitInit ==
    /\ pc = "gitInit"
    /\ \E ok \in BOOLEAN : Step("gitInit", run(Here, gitInitCmd, ok), "husky")

\* What `husky init` leaves: its default hook, and scripts.prepare = "husky"
\* in package.json (the comment at line 293).
huskyInit(w) ==
    LET h == writeFile(w, ".husky/pre-commit", TextFile(<<"npm test\n">>))
        pkg == JSONparse(h.fs["package.json"])
    IN IF pkg.thrown # "" \/ ~IsObject(GetProp(pkg.val, "scripts")) THEN h
       ELSE [h EXCEPT !.fs["package.json"] =
                JSONstringify(SetProp(pkg.val, "scripts",
                                      SetProp(GetProp(pkg.val, "scripts"),
                                              "prepare", JStr("husky"))))]

\* HuskyInit with the bug of the hook written before husky init, not
\* after it: nothing follows husky init but the next steps.
HuskyInit_last ==
    /\ pc = "husky"
    /\ \/ Step("huskyInit", run(Here, huskyInitCmd, FALSE), "print")
       \/ Step("huskyInit", run(huskyInit(Here), huskyInitCmd, TRUE), "print")

HuskyInit ==
    /\ pc = "husky"
    /\ \/ Step("huskyInit", run(Here, huskyInitCmd, FALSE), "hook")
       \/ Step("huskyInit", run(huskyInit(Here), huskyInitCmd, TRUE), "hook")

\* Line 297.
WriteHook ==
    /\ pc = "hook"
    /\ Step("writeHook", writeFile(Here, ".husky/pre-commit", TextFile(<<"lint-staged\n">>)),
            "print")

\* Lines 299-309: the next steps; main returns and the process exits 0.
PrintNextSteps ==
    /\ pc = "print"
    /\ pc' = "exited"
    /\ exitCode' = 0
    /\ printed' = Append(printed, <<"stdout", "cd", appName>> \o runScriptCmd(chosenPM, "dev"))
    /\ trace' = Append(trace, "done")
    /\ UNCHANGED <<fs, dirs, cmds, err, opts, chosenPM, runs, overlayVars>>

\* The tool is run again with the same command line in the directory a
\* completed run has left: the generator (line 215) leaves the directory
\* as it is, and the run changes into it (line 218).
Rerun ==
    /\ pc = "exited"
    /\ exitCode = 0
    /\ trace[Len(trace)] = "done"
    /\ runs + 1 < MaxRuns
    /\ runs' = runs + 1
    /\ pc' = "detect"
    /\ exitCode' = -1
    /\ trace' = <<"parseArgs", "generator", "chdir">>
    /\ cmds' = <<generatorCmd(opts.template)>>
    /\ printed' = <<>>
    /\ UNCHANGED <<fs, dirs, err, opts, chosenPM, overlayVars>>

Init ==
    /\ opts \in Options
    /\ fs = [p \in Paths |-> NoFile]
    /\ dirs = {"."}
    /\ err = ""
    /\ cmds = <<>>
    /\ pc = "start"
    /\ chosenPM = ""
    /\ exitCode = -1
    /\ trace = <<>>
    /\ printed = <<>>
    /\ runs = 0
    /\ last = ""
    /\ streak = 0
    /\ nops = 0
    /\ prev = World(fs, dirs, <<>>, "")
    /\ start = World(fs, dirs, <<>>, "")

Next ==
    \/ ParseArgs
    \/ Generate
    \/ Chdir
    \/ DetectPM
    \/ WriteRegistry
    \/ MergePackageJson
    \/ InstallBase
    \/ TwInstallPkgs
    \/ TwInstallDeps
    \/ TwViteConfig
    \/ TwIndexCss
    \/ TwPrettier
    \/ TwVscode
    \/ TwReadme
    \/ FinalInstall
    \/ GitCheck
    \/ GitInit
    \/ HuskyInit
    \/ WriteHook
    \/ PrintNextSteps
    \/ Rerun

Spec == Init /\ [][Next]_vars

(***************************************************************************)
(* Properties of the run (checked under Spec).                             *)
(***************************************************************************)
\* The commands that are not null, in order.
NonNull(cs) == SelectSeq(cs, LAMBDA c : c # <<>>)

\* The external commands of a run of main that reaches its end with the
\* manager pm: lines 215, 274-275, 142-147, 282, 286-289 and 294.
mainCmds(pm, template, withTailwind, gitInit) ==
    <<generatorCmd(template)>>
    \o NonNull(<<depCmd(pm, allDev(template = "react-ts"), TRUE)>>)
    \o (IF withTailwind
        THEN NonNull(<<depCmd(pm, tailwindPkgs, FALSE), depCmd(pm, tailwindDeps, TRUE)>>)
        ELSE <<>>)
    \o <<installCmd(pm), gitCheckCmd>>
    \o (IF gitInit THEN <<gitInitCmd>> ELSE <<>>)
    \o <<huskyInitCmd>>

Succeeded == pc = "exited" /\ exitCode = 0 /\ trace # <<>> /\ trace[Len(trace)] = "done"

Did(step) == \E i \in 1..Len(trace) : trace[i] = step

\* A run that succeeded issued the commands of mainCmds for its manager.
SucceededRunCmds ==
    Succeeded => cmds = mainCmds(chosenPM, opts.template, opts.tailwind, Did("gitInit"))

\* The manager the claim names: pnpm if pnpm-lock.yaml exists, otherwise
\* yarn if yarn.lock exists, otherwise the requested one.
ExpectedManager ==
    IF fs["pnpm-lock.yaml"].k # "none" THEN "pnpm"
    ELSE IF fs["yarn.lock"].k # "none" THEN "yarn"
    ELSE opts.pm

\* C9: once detection has run, the chosen manager is the one the lock files
\* name (pnpm before yarn before the requested one), and it is the manager
\* of the README the registry wrote, of every install command issued, and
\* of the next-step command printed.
C9_ChosenManagerEverywhere ==
    Did("detectPM") =>
        LET E == ExpectedManager
        IN /\ chosenPM = E
           /\ (Did("writeAllFilesFromRegistry") /\ ~Did("twReadme")) =>
                 fs["README.md"] = readme(appName, E)
           /\ \A i \in 1..Len(cmds) :
                 cmds[i] \in { generatorCmd(opts.template), gitCheckCmd, gitInitCmd,
                               huskyInitCmd, installCmd(E),
                               depCmd(E, allDev(useTypeScript), TRUE),
                               depCmd(E, tailwindPkgs, FALSE),
                               depCmd(E, tailwindDeps, TRUE) } \ {<<>>}
           /\ Did("install") => \E i \in 1..Len(cmds) : cmds[i] = installCmd(E)
           /\ (Did("installBase") /\ E \in PackageManagers) =>
                 \E i \in 1..Len(cmds) : cmds[i] = depCmd(E, allDev(useTypeScript), TRUE)
           /\ Succeeded =>
                 printed[Len(printed)] = <<"stdout", "cd", appName>> \o runScriptCmd(E, "dev")

\* A run asked for npm, found both lock files, and finished with the
\* add-on under pnpm.
C9_Witness ==
    /\ Succeeded
    /\ opts.pm = "npm"
    /\ opts.tailwind
    /\ fs["pnpm-lock.yaml"].k # "none"
    /\ fs["yarn.lock"].k # "none"
    /\ chosenPM = "pnpm"
    /\ \E i \in 1..Len(cmds) : cmds[i] = <<"pnpm", "install">>

\* C10: with no lock file, a run given an invalid package manager issues
\* the commands of a run given npm.
C10_InvalidManagerRunsAsNpm ==
    (Succeeded /\ opts.pm \notin PackageManagers
               /\ fs["pnpm-lock.yaml"].k = "none" /\ fs["yarn.lock"].k = "none") =>
        cmds = mainCmds("npm", opts.template, opts.tailwind, Did("gitInit"))

(***************************************************************************)
(* Help, exit status and failures (checked under Spec).                    *)
(***************************************************************************)
\* The run has done nothing but handle its arguments: no command was issued,
\* no file or directory was created, the working directory is the one the
\* tool was started in.
NothingDone ==
    /\ cmds = <<>>
    /\ fs = [p \in Paths |-> NoFile]
    /\ dirs = {"."}
    /\ ~Did("generator")
    /\ ~Did("chdir")

UsageShown == printed = << <<"stdout", "usage">> >> /\ exitCode = 0

CompletedSteps ==
    { "parseArgs", "generator", "chdir", "detectPM", "writeAllFilesFromRegistry",
      "upsertPackageJson", "installBase", "install", "gitCheck", "huskyInit",
      "writeHook" }

\* C12: the process exits 0 exactly when the run completed or showed help,
\* and 1 exactly when a step threw, with the error on the error stream;
\* while it runs no step has thrown and it has no status.
C12_ExitStatus ==
    /\ exitCode \in {-1, 0, 1}
    /\ pc # "exited" <=> exitCode = -1
    /\ pc # "exited" => err = ""
    /\ pc = "exited" =>
          /\ exitCode = 1 <=> err # ""
          /\ exitCode = 0 <=> trace[Len(trace)] \in {"done", "printHelp"}
          /\ trace[Len(trace)] = "done" => \A st \in CompletedSteps : Did(st)
          /\ trace[Len(trace)] = "printHelp" => (opts.help \/ ~opts.named)
          /\ err # "" =>
                printed[Len(printed)] = <<"stderr", "Bootstrap failed:", err>>

\* A run that failed at a file read: the add-on found no vite.config.js.
C12_Witness ==
    /\ pc = "exited"
    /\ exitCode = 1
    /\ err = "ENOENT"
    /\ trace[Len(trace)] = "twViteConfig"
    /\ printed[Len(printed)] = <<"stderr", "Bootstrap failed:", "ENOENT">>

\* The work-tree check exited non-zero: its catch block has logged.
GitCheckFailed == \E i \in 1..Len(printed) : printed[i] = <<"stdout", "Initializing git repo">>

\* The steps of main that run an external command.
CommandSteps ==
    { "generator", "installBase", "twInstallPkgs", "twInstallDeps", "install",
      "gitInit", "huskyInit" }

\* C13 as stated: once an external process has exited non-zero (the
\* work-tree check included) the run has ended with status 1, and the
\* failing command is the last thing it did.
C13_EveryCommandFailureIsFatal ==
    (err = "CommandFailed" \/ GitCheckFailed) =>
        /\ pc = "exited"
        /\ exitCode = 1
        /\ trace[Len(trace)] \in CommandSteps \cup {"gitCheck"}

\* C13 as amended: a non-zero exit of the generator, of a package-manager
\* command, of git init or of husky init ends the run with status 1, that
\* command being the last step taken and issued once; a non-zero exit of
\* the work-tree check never ends the run: the next command is git init.
\* A run that has exited with status 1 takes no further step.
C13_CommandFailureIsFatalButCheck ==
    /\ [](/\ err = "CommandFailed" =>
               /\ pc = "exited"
               /\ exitCode = 1
               /\ trace[Len(trace)] \in CommandSteps
               /\ cmds[Len(cmds)] # gitCheckCmd
               /\ Count(cmds, cmds[Len(cmds)]) = 1
          /\ GitCheckFailed =>
               \E i \in 1..Len(cmds) :
                  /\ cmds[i] = gitCheckCmd
                  /\ IF i = Len(cmds) THEN pc = "gitInit" ELSE cmds[i + 1] = gitInitCmd)
    /\ [][~(pc = "exited" /\ exitCode = 1)]_vars

\* The check failed, git init succeeded, and the run went on to its end.
C13_Witness ==
    /\ Succeeded
    /\ GitCheckFailed
    /\ Did("gitInit")
    /\ fs[".husky/pre-commit"] = TextFile(<<"lint-staged\n">>)

(***************************************************************************)
(* The registry main asked for (checked under Spec, right after the        *)
(* registry has been written: every option record of Options gets there).  *)
(***************************************************************************)
RegistryKeys(registry) == {registry[i].path : i \in 1..Len(registry)}

RegistryValue(registry, p) ==
    registry[CHOOSE i \in 1..Len(registry) : registry[i].path = p].content

TypeScriptParser == JStr("@typescript-eslint/parser")

\* C14: the registry of a run holds src/App.tsx and not src/App.jsx when
\* useTypeScript is true and src/App.jsx and not src/App.tsx otherwise, no
\* key twice; its .eslintrc.json has the TypeScript parser exactly when
\* useTypeScript is true; the registry for the other value of the add-on
\* flag has the same keys and differs in the App entry only; and what was
\* written is what the registry holds.
C14_RegistryBranchesOnLanguage ==
    pc = "packageJson" =>
        LET R == getFileRegistry(appName, chosenPM, useTypeScript, opts.tailwind)
            O == getFileRegistry(appName, chosenPM, useTypeScript, ~opts.tailwind)
            app == IF useTypeScript THEN "src/App.tsx" ELSE "src/App.jsx"
            other == IF useTypeScript THEN "src/App.jsx" ELSE "src/App.tsx"
            eslint == JSONparse(RegistryValue(R, ".eslintrc.json"))
        IN /\ app \in RegistryKeys(R)
           /\ other \notin RegistryKeys(R)
           /\ Cardinality(RegistryKeys(R)) = Len(R)
           /\ eslint.thrown = ""
           /\ GetProp(eslint.val, "parser") = TypeScriptParser <=> useTypeScript
           /\ ~useTypeScript => ~HasProp(eslint.val, "parser")
           /\ RegistryKeys(O) = RegistryKeys(R)
           /\ \A p \in RegistryKeys(R) :
                 RegistryValue(R, p) = RegistryValue(O, p) <=> p # app
           /\ \A p \in RegistryKeys(R) : fs[p] = RegistryValue(R, p)

\* The registry of a react-ts run with the add-on has been written.
C14_Witness ==
    /\ pc = "packageJson"
    /\ opts.template = "react-ts"
    /\ opts.tailwind
    /\ fs["src/App.tsx"] = appTailwindTypeScript
    /\ GetProp(JSONparse(fs[".eslintrc.json"]).val, "parser") = TypeScriptParser

(***************************************************************************)
(* Running the tool again (checked under Spec; `start` is the directory as *)
(* the overlay of the current run found it).                               *)
(***************************************************************************)
\* The files the tool writes.
WrittenFiles ==
    { ".prettierrc.json", ".prettierignore", ".eslintrc.json", ".eslintignore",
      ".vscode/settings.json", "README.md", "src/App.jsx", "src/App.tsx",
      "package.json", "vite.config.js", "src/index.css", ".husky/pre-commit" }

\* C15: a run that completes in the directory a completed run with the same
\* options has left leaves every file the tool writes as it found it.
C15_RerunLeavesFilesAlone ==
    (Succeeded /\ runs > 0) => \A p \in WrittenFiles : fs[p] = start.fs[p]

\* A second run with the add-on has completed: it found the README with
\* the Tailwind section and left it so.
C15_Witness ==
    /\ Succeeded
    /\ runs = 1
    /\ opts.tailwind
    /\ Did("twReadme")
    /\ start.fs["README.md"] = TextFile(readme(appName, chosenPM).text \o TailwindSection)
    /\ fs["README.md"] = start.fs["README.md"]
    /\ fs[".husky/pre-commit"] = TextFile(<<"lint-staged\n">>)

(***************************************************************************)
(* What a run keeps of the documents it found (checked under Spec).        *)
(***************************************************************************)
\* The top-level keys the tool manages in a document.
ManagedKeys(p) ==
    CASE p = "package.json" -> {"scripts", "lint-staged"}
      [] p = ".vscode/settings.json" ->
            Keys(DocOf(vsCodeSettings)) \cup {TailwindConfigKey}

\* C16: when a run completes, every key that package.json and
\* .vscode/settings.json held before the overlay started, and that the tool
\* does not manage, is in the file with the value it had.
C16_UserKeysSurviveRun ==
    Succeeded =>
        \A p \in {"package.json", ".vscode/settings.json"} :
            \A k \in Keys(DocOf(start.fs[p])) \ ManagedKeys(p) :
                /\ fs[p].k = "json"
                /\ HasProp(DocOf(fs[p]), k)
                /\ GetProp(DocOf(fs[p]), k) = GetProp(DocOf(start.fs[p]), k)

\* The part of C16 that holds: the keys of package.json survive.
PackageJsonKeysSurviveRun ==
    Succeeded =>
        \A k \in Keys(DocOf(start.fs["package.json"])) \ ManagedKeys("package.json") :
            /\ HasProp(DocOf(fs["package.json"]), k)
            /\ GetProp(DocOf(fs["package.json"]), k) = GetProp(DocOf(start.fs["package.json"]), k)

(***************************************************************************)
(* The order of the steps (checked under Spec).                            *)
(***************************************************************************)
IsPrefix(p, q) == Len(p) <= Len(q) /\ SubSeq(q, 1, Len(p)) = p

TailwindSteps ==
    << "twInstallPkgs", "twInstallDeps", "twViteConfig", "twIndexCss", "twPrettier",
       "twVscode", "twReadme" >>

\* The steps of a run of main that reaches its end, in the order of lines
\* 197-309.
mainSteps(withTailwind, gitInit) ==
    << "parseArgs", "generator", "chdir", "detectPM", "writeAllFilesFromRegistry",
       "upsertPackageJson", "installBase" >>
    \o (IF withTailwind THEN TailwindSteps ELSE <<>>)
    \o <<"install", "gitCheck">>
    \o (IF gitInit THEN <<"gitInit">> ELSE <<>>)
    \o <<"huskyInit", "writeHook", "done">>

\* C17: the steps a run past its arguments has taken, and the commands it
\* has issued, are an initial part of the sequence generator, chdir,
\* detection, registry writes, package.json merge, base install, add-on
\* (exactly when asked for), final install, work-tree check, git init
\* (exactly when the check failed), husky init, hook write; and a run that
\* succeeded leaves .husky/pre-commit holding 'lint-staged\n'.
C17_StepsInOrder ==
    (trace # <<>> /\ trace[1] = "parseArgs") =>
        /\ \E g \in BOOLEAN :
              /\ IsPrefix(trace, mainSteps(opts.tailwind, g))
              /\ IsPrefix(cmds, mainCmds(IF Did("detectPM") THEN chosenPM ELSE opts.pm,
                                         opts.template, opts.tailwind, g))
        /\ Did("gitInit") => GitCheckFailed
        /\ (GitCheckFailed /\ Did("huskyInit")) => Did("gitInit")
        /\ Did("writeHook") => fs[".husky/pre-commit"] = TextFile(<<"lint-staged\n">>)
        /\ Succeeded =>
              /\ \E g \in BOOLEAN : trace = mainSteps(opts.tailwind, g)
              /\ fs[".husky/pre-commit"] = TextFile(<<"lint-staged\n">>)

\* A run with the add-on and git init has succeeded: husky init had left
\* its default hook, and the hook is the tool's.
C17_Witness ==
    /\ Succeeded
    /\ trace = mainSteps(TRUE, TRUE)
    /\ fs[".husky/pre-commit"] = TextFile(<<"lint-staged\n">>)

(***************************************************************************)
(* The order of the operations of enableTailwind (checked under            *)
(* SpecOverlay).  Operation 1 is the two installs; operations 2 to 6 each  *)
(* write one file of their own.                                            *)
(***************************************************************************)
\* The world enableTailwind was applied to.
Before == World(prev.fs, prev.dirs, <<>>, "")

\* Operation k of enableTailwind, on its own, applied to that world.
TailwindOp(k) ==
    CASE k = 2 -> twViteConfig(Before)
      [] k = 3 -> twIndexCss(Before)
      [] k = 4 -> twPrettier(Before)
      [] k = 5 -> twVscode(Before)
      [] k = 6 -> twReadme(Before)

TailwindFile(k) ==
    CASE k = 2 -> "vite.config.js"
      [] k = 3 -> "src/index.css"
      [] k = 4 -> ".prettierrc.json"
      [] k = 5 -> ".vscode/settings.json"
      [] k = 6 -> "README.md"

\* The operation that failed: 1 when an install exited non-zero, else the
\* first of 2..6 that throws on the world it was given, else 7.
FailedOp ==
    IF err = "CommandFailed" THEN 1
    ELSE IF \E k \in 2..6 : TailwindOp(k).err # ""
         THEN CHOOSE k \in 2..6 : /\ TailwindOp(k).err # ""
                                  /\ \A j \in 2..(k-1) : TailwindOp(j).err = ""
         ELSE 7

\* The install commands of enableTailwind for the manager pm.
TailwindInstalls(pm) ==
    NonNull(<<depCmd(pm, tailwindPkgs, FALSE), depCmd(pm, tailwindDeps, TRUE)>>)

\* C18: enableTailwind fails exactly when one of its six operations fails,
\* with that operation's error; the operations before the failing one have
\* written their files (no rollback), the failing one and those after it
\* have written nothing; no file is written unless both installs have run;
\* and no other file is touched.
C18_TailwindOpsInOrder ==
    last = "enableTailwind" =>
        LET K == FailedOp
        IN /\ err # "" <=> K <= 6
           /\ K \in 2..6 => err = TailwindOp(K).err
           /\ \A k \in 2..6 :
                 fs[TailwindFile(k)] =
                    IF k < K THEN TailwindOp(k).fs[TailwindFile(k)]
                    ELSE prev.fs[TailwindFile(k)]
           /\ \A p \in Paths \ TailwindFiles : fs[p] = prev.fs[p]
           /\ \E pm \in RequestedManagers :
                 IF K = 1
                 THEN IsPrefix(cmds, TailwindInstalls(pm)) /\ cmds # <<>>
                 ELSE cmds = TailwindInstalls(pm)

\* The settings merge (operation 5) failed for want of the .vscode
\* directory: the build config, the stylesheet and the prettier config
\* have their new content, the README is untouched.
C18_Witness ==
    /\ last = "enableTailwind"
    /\ FailedOp = 5
    /\ err = "ENOENT"
    /\ cmds = TailwindInstalls("npm")
    /\ fs["vite.config.js"] # prev.fs["vite.config.js"]
    /\ fs["src/index.css"] = TextFile(<<TailwindDirective>>)
    /\ fs["src/index.css"] # prev.fs["src/index.css"]
    /\ fs[".prettierrc.json"] # prev.fs[".prettierrc.json"]
    /\ fs["README.md"] = prev.fs["README.md"]

(***************************************************************************)
(* The add-on in both language modes (checked under Spec).                 *)
(***************************************************************************)
\* The run asked for the add-on and has ended; its command line parsed,
\* every external command it issued exited 0, and the generator had left a
\* project: package.json was merged and both installs of the add-on ran.
AddOnRunEnded ==
    /\ pc = "exited"
    /\ opts.tailwind
    /\ Did("twInstallDeps")
    /\ err # "CommandFailed"

\* What the add-on leaves: a build-tool config (under the name the
\* generator gave it) that refers to '@tailwindcss/vite', the stylesheet
\* and the README section.
AddOnApplied ==
    LET config == fs[viteConfigName(opts.template)]
        readmeText == fs["README.md"].text
    IN /\ config.k = "text"
       /\ Count(config.text, TailwindImport) + Count(config.text, TailwindComment) > 0
       /\ fs["src/index.css"] = TextFile(<<TailwindDirective>>)
       /\ Len(readmeText) >= Len(TailwindSection)
       /\ SubSeq(readmeText, Len(readmeText) - Len(TailwindSection) + 1, Len(readmeText))
             = TailwindSection

\* C19: a run with the add-on in which every external command succeeds
\* exits 0 and leaves the rewritten build-tool config, the stylesheet and
\* the README section, for react and for react-ts.
C19_AddOnSucceedsInBothModes ==
    AddOnRunEnded => (Succeeded /\ AddOnApplied)

\* The part of C19 that holds: the same for the react template alone.
AddOnSucceedsForReact ==
    (AddOnRunEnded /\ opts.template = "react") => (Succeeded /\ AddOnApplied)

\* Every react-ts run with the add-on that gets to the build-tool config
\* ends there.
AddOnFailsForReactTs ==
    (AddOnRunEnded /\ opts.template = "react-ts") =>
        /\ exitCode = 1
        /\ err = "ENOENT"
        /\ trace[Len(trace)] = "twViteConfig"
        /\ fs["vite.config.ts"].k = "text"
        /\ fs["vite.config.js"] = NoFile

(***************************************************************************)
(* The import and the plugin call (checked under SpecOverlay, where the    *)
(* rewrite is applied to every text of ViteConfigs).                       *)
(***************************************************************************)
HasTailwindImport(text) == Count(text, TailwindImport) > 0

HasTailwindCall(text) == Count(text, PluginsReactTailwind) > 0

\* C20: the text the rewrite step has written holds the tailwind import
\* exactly when its plugin list holds tailwindcss().
C20_ImportIffPluginCall ==
    (last = "rewriteViteConfig" /\ err = "") =>
        (HasTailwindImport(fs["vite.config.js"].text)
            <=> HasTailwindCall(fs["vite.config.js"].text))

\* The two ways the step itself breaks C20 are both reached: it adds the
\* import to a text whose plugin list it does not match ...
ImportAddedWithoutCall ==
    /\ last = "rewriteViteConfig" /\ err = ""
    /\ prev.fs["vite.config.js"] = TextFile(<<ReactImport, PluginsReactOther>>)
    /\ fs["vite.config.js"] = TextFile(<<TailwindImport, ReactImport, PluginsReactOther>>)

\* ... and it splices tailwindcss() into a text that only mentions
\* '@tailwindcss/vite' in a comment.
CallSplicedWithoutImport ==
    /\ last = "rewriteViteConfig" /\ err = ""
    /\ prev.fs["vite.config.js"] = TextFile(<<TailwindComment, PluginsReact>>)
    /\ fs["vite.config.js"] = TextFile(<<TailwindComment, PluginsReactTailwind>>)

====
